---- MODULE Spec2Model ----
(***************************************************************************)
(* Model of the video annotation engine of the VideoPlayer component       *)
(* (src/components/PlayerSelector.tsx): the drawing interaction handlers,  *)
(* the undo/redo history, and the annotation lifecycle (save, time-range   *)
(* activation).                                                            *)
(*                                                                         *)
(* React state is modelled as variables; every event handler is one        *)
(* atomic action that reads the state of the last render and applies all   *)
(* of its setState calls.  Times are integers counted in ticks of          *)
(* 1/TicksPerSec second, so that Math.floor is not the identity.           *)
(* A Drawing keeps tool, points, start, end, timestamp and text; its id    *)
(* (Date.now) and color do not influence any handler.                      *)
(***************************************************************************)
EXTENDS Integers, Sequences, FiniteSets, TLC

\* ---------------------------------------------------------------- bounds
MaxSize == 5
TicksPerSec == 2
MaxTime == 3
MaxAnnotations == 2
MaxUpdates == 2
MaxTimers == 1
MaxLoads == 2

\* ------------------------------------------------------ program constants
\* Math.hypot(...) < 2 in handlePointerMove
MinDist == 2
\* "or 10 seconds if duration not loaded yet"
DefaultSeconds == 10
\* JS null / undefined for a number-valued field
Missing == -1

Null == <<>>

\* pointer positions offered to the handlers (display pixels): where the
\* pointer goes down, and where it moves, in the specification of the
\* history and of the lifecycle; and the samples of a freehand stroke in
\* the specification of the pen tool, which lie closer than, at and
\* beyond the threshold from one another
DownPoints == {<<0, 0>>}
Points == {<<2, 0>>}
PenPoints == {<<0, 0>>, <<1, 0>>, <<2, 0>>, <<5, 0>>}

\* the tools that draw from startPoint to currentPoint are handled alike;
\* one of them stands for all
ShapeTools == {"arrow"}
Tools == {"pen", "angle"} \cup ShapeTools

VARIABLES
  isAnnotating, activeTool, currentDrawings, drawingHistory, historyIndex,
  isDrawing, startPoint, currentPoint, anglePoints,
  currentTime, duration, annotationDuration, annotationDurationInput,
  showAnnotations, annotations,
  seekRef, isSeeking, isDragging, seekTimers, rafSeekRef,
  src, videoSrc, isLoading, loads, loadCount,
  inflight, updateCalls, alerts,
  clock, lastEvent, ghost, handed

drawVars == <<isAnnotating, activeTool, currentDrawings, drawingHistory,
              historyIndex, isDrawing, startPoint, currentPoint, anglePoints>>
timeVars == <<currentTime, duration, annotationDuration,
              annotationDurationInput, showAnnotations>>
seekVars == <<seekRef, isSeeking, isDragging, seekTimers, rafSeekRef>>
loadVars == <<src, videoSrc, isLoading, loads, loadCount>>
storeVars == <<inflight, updateCalls, alerts>>
vars == <<drawVars, timeVars, annotations, seekVars, loadVars, storeVars,
          clock, lastEvent, ghost, handed>>

\* ---------------------------------------------------------------- helpers
Min(a, b) == IF a <= b THEN a ELSE b

\* Math.floor on a time given in ticks
Floor(t) == TicksPerSec * (t \div TicksPerSec)

\* drawingHistory[i] of the source (0-based)
HistoryAt(i) == drawingHistory[i + 1]

Last(s) == s[Len(s)]
ButLast(s) == SubSeq(s, 1, Len(s) - 1)

Dist2(p, q) == (p[1] - q[1]) * (p[1] - q[1]) + (p[2] - q[2]) * (p[2] - q[2])

\* dist < 2, with dist = Math.hypot(dx, dy)
TooCloseOrAtThreshold(p, q) == Dist2(p, q) <= MinDist * MinDist
TooClose(p, q) == Dist2(p, q) < MinDist * MinDist

\* a Drawing without a text label
NoText == ""

PenDrawing(point) ==
  [tool |-> "pen", points |-> <<point>>, start |-> Null, end |-> Null,
   timestamp |-> currentTime, text |-> NoText]

ShapeSwapped(tool, s, e) ==
  [tool |-> tool, points |-> <<>>, start |-> e, end |-> s,
   timestamp |-> currentTime, text |-> NoText]

ShapeDrawing(tool, s, e) ==
  [tool |-> tool, points |-> <<>>, start |-> s, end |-> e,
   timestamp |-> currentTime, text |-> NoText]

\* the direction Math.atan2 sees: atan2(0, 0) is 0, the direction of (1, 0)
Direction(p, vertex) ==
  IF p = vertex THEN <<1, 0>> ELSE <<p[1] - vertex[1], p[2] - vertex[2]>>

Abs(n) == IF n < 0 THEN -n ELSE n

\* angleDeg.toFixed(1), followed in the label by the degree sign: the angle
\* at the vertex between the two arms, in [0, 180]; the multiples of 45
\* degrees are told apart, any other angle reads "other"
AngleText(pts) ==
  LET u == Direction(pts[1], pts[2])
      v == Direction(pts[3], pts[2])
      cross == u[1] * v[2] - u[2] * v[1]
      dot == u[1] * v[1] + u[2] * v[2]
  IN IF cross = 0 THEN (IF dot > 0 THEN "0.0" ELSE "180.0")
     ELSE IF dot = 0 THEN "90.0"
     ELSE IF Abs(cross) = dot THEN "45.0"
     ELSE IF Abs(cross) = -dot THEN "135.0"
     ELSE "other"

AngleReversed(pts) ==
  [tool |-> "angle", points |-> <<pts[3], pts[2], pts[1]>>, start |-> Null,
   end |-> Null, timestamp |-> currentTime, text |-> AngleText(pts)]

AngleDrawing(pts) ==
  [tool |-> "angle", points |-> pts, start |-> Null, end |-> Null,
   timestamp |-> currentTime, text |-> AngleText(pts)]

\* the ghost variable remembers, after an undo that acted, the history and
\* the index as they were before it (kept through the redo that follows
\* immediately), and after a commit the index before it, the entries up to
\* that index, and the number of entries that lay beyond it
NoGhost == [kind |-> "none", hist |-> <<>>, idx |-> -1, cut |-> 0]

UndoGhost ==
  [kind |-> "undo", hist |-> drawingHistory, idx |-> historyIndex, cut |-> 0]

CommitGhost ==
  [kind |-> "commit", hist |-> SubSeq(drawingHistory, 1, historyIndex + 1),
   idx |-> historyIndex, cut |-> Len(drawingHistory) - (historyIndex + 1)]

GhostOfCommit ==
  ghost' = IF historyIndex' = historyIndex + 1 THEN CommitGhost ELSE NoGhost

\* after a delete request, the id that was asked for
DeleteGhost(annotationId) ==
  [kind |-> "delete", hist |-> <<>>, idx |-> annotationId, cut |-> 0]

\* handed is the annotation that the event that just happened passed to
\* onAddAnnotation, with the display-duration configured at that moment
NoHanded == [set |-> FALSE]

\* ------------------------------------------------------------ the history
\* saveToHistory: prev.slice(0, historyIndex + 1) then push, index + 1
SaveNoTruncate(drawings) ==
  /\ drawingHistory' = Append(drawingHistory, drawings)
  /\ historyIndex' = historyIndex + 1

saveToHistory(drawings) ==
  /\ drawingHistory' = Append(SubSeq(drawingHistory, 1, historyIndex + 1), drawings)
  /\ historyIndex' = historyIndex + 1

UndoKeepsDrawings ==
  /\ lastEvent' = "undo"
  /\ UNCHANGED <<seekVars, loadVars, storeVars>>
  /\ handed' = NoHanded
  /\ IF historyIndex > 0
       THEN /\ historyIndex' = historyIndex - 1
            /\ UNCHANGED currentDrawings
            /\ ghost' = UndoGhost
       ELSE /\ UNCHANGED <<historyIndex, currentDrawings>>
            /\ ghost' = NoGhost
  /\ UNCHANGED <<isAnnotating, activeTool, drawingHistory, isDrawing,
                 startPoint, currentPoint, anglePoints, timeVars,
                 annotations, clock>>

handleUndo ==
  /\ lastEvent' = "undo"
  /\ UNCHANGED <<seekVars, loadVars, storeVars>>
  /\ handed' = NoHanded
  /\ IF historyIndex > 0
       THEN /\ historyIndex' = historyIndex - 1
            /\ currentDrawings' = HistoryAt(historyIndex - 1)
            /\ ghost' = UndoGhost
       ELSE /\ UNCHANGED <<historyIndex, currentDrawings>>
            /\ ghost' = NoGhost
  /\ UNCHANGED <<isAnnotating, activeTool, drawingHistory, isDrawing,
                 startPoint, currentPoint, anglePoints, timeVars,
                 annotations, clock>>

\* the condition of handleRedo, also the negation of the button's disabled
RedoEnabled == historyIndex < Len(drawingHistory) - 1

RedoKeepsDrawings ==
  /\ lastEvent' = "redo"
  /\ UNCHANGED <<seekVars, loadVars, storeVars>>
  /\ handed' = NoHanded
  /\ IF RedoEnabled
       THEN /\ historyIndex' = historyIndex + 1
            /\ UNCHANGED currentDrawings
       ELSE UNCHANGED <<historyIndex, currentDrawings>>
  /\ ghost' = IF lastEvent = "undo" THEN ghost ELSE NoGhost
  /\ UNCHANGED <<isAnnotating, activeTool, drawingHistory, isDrawing,
                 startPoint, currentPoint, anglePoints, timeVars,
                 annotations, clock>>

handleRedo ==
  /\ lastEvent' = "redo"
  /\ UNCHANGED <<seekVars, loadVars, storeVars>>
  /\ handed' = NoHanded
  /\ IF RedoEnabled
       THEN /\ historyIndex' = historyIndex + 1
            /\ currentDrawings' = HistoryAt(historyIndex + 1)
       ELSE UNCHANGED <<historyIndex, currentDrawings>>
  /\ ghost' = IF lastEvent = "undo" THEN ghost ELSE NoGhost
  /\ UNCHANGED <<isAnnotating, activeTool, drawingHistory, isDrawing,
                 startPoint, currentPoint, anglePoints, timeVars,
                 annotations, clock>>

ClearRewritesEntry ==
  /\ lastEvent' = "clear"
  /\ UNCHANGED <<seekVars, loadVars, storeVars>>
  /\ handed' = NoHanded
  /\ ghost' = NoGhost
  /\ currentDrawings' = <<>>
  /\ anglePoints' = <<>>
  /\ drawingHistory' = [drawingHistory EXCEPT ![historyIndex + 1] = <<>>]
  /\ UNCHANGED <<historyIndex, isAnnotating, activeTool, isDrawing,
                 startPoint, currentPoint, timeVars, annotations, clock>>

handleClear ==
  /\ lastEvent' = "clear"
  /\ UNCHANGED <<seekVars, loadVars, storeVars>>
  /\ handed' = NoHanded
  /\ currentDrawings' = <<>>
  /\ anglePoints' = <<>>
  /\ saveToHistory(<<>>)
  /\ GhostOfCommit
  /\ UNCHANGED <<isAnnotating, activeTool, isDrawing, startPoint,
                 currentPoint, timeVars, annotations, clock>>

\* ------------------------------------------------------- pointer handlers
\* the functional update of handlePointerMove for the pen tool
PenAppend(prev, point) ==
  IF prev = <<>> \/ Last(prev).tool # "pen" THEN prev
  ELSE IF TooClose(point, Last(Last(prev).points)) THEN prev
  ELSE Append(ButLast(prev),
              [Last(prev) EXCEPT !.points = Append(Last(prev).points, point)])

handlePointerDown(point) ==
  /\ lastEvent' = "down"
  /\ UNCHANGED <<seekVars, loadVars, storeVars>>
  /\ handed' = NoHanded
  /\ IF ~isAnnotating
       THEN UNCHANGED <<currentDrawings, drawingHistory, historyIndex,
                        isDrawing, startPoint, currentPoint, anglePoints>>
     ELSE IF activeTool = "angle"
       THEN LET newPoints == Append(anglePoints, point) IN
            IF Len(newPoints) = 3
              THEN LET updated == Append(currentDrawings, AngleDrawing(newPoints)) IN
                   /\ currentDrawings' = updated
                   /\ saveToHistory(updated)
                   /\ anglePoints' = <<>>
                   /\ UNCHANGED <<isDrawing, startPoint, currentPoint>>
              ELSE /\ anglePoints' = newPoints
                   /\ UNCHANGED <<currentDrawings, drawingHistory, historyIndex,
                                  isDrawing, startPoint, currentPoint>>
     ELSE /\ isDrawing' = TRUE
          /\ startPoint' = point
          /\ currentPoint' = point
          /\ currentDrawings' = IF activeTool = "pen"
                                  THEN Append(currentDrawings, PenDrawing(point))
                                  ELSE currentDrawings
          /\ UNCHANGED <<drawingHistory, historyIndex, anglePoints>>
  /\ UNCHANGED <<isAnnotating, activeTool, timeVars, annotations, clock>>
  /\ GhostOfCommit

handlePointerMove(point) ==
  /\ lastEvent' = "move"
  /\ UNCHANGED <<seekVars, loadVars, storeVars>>
  /\ handed' = NoHanded
  /\ ghost' = NoGhost
  /\ IF ~isAnnotating
       THEN UNCHANGED <<currentPoint, currentDrawings>>
       ELSE /\ currentPoint' = point
            /\ currentDrawings' =
                 IF activeTool # "angle" /\ isDrawing /\ activeTool = "pen"
                   THEN PenAppend(currentDrawings, point)
                   ELSE currentDrawings
  /\ UNCHANGED <<isAnnotating, activeTool, drawingHistory, historyIndex,
                 isDrawing, startPoint, anglePoints, timeVars, annotations,
                 clock>>

handlePointerUp ==
  /\ lastEvent' = "up"
  /\ UNCHANGED <<seekVars, loadVars, storeVars>>
  /\ handed' = NoHanded
  /\ IF ~isAnnotating \/ activeTool = "angle" \/ ~isDrawing
       THEN UNCHANGED <<currentDrawings, drawingHistory, historyIndex,
                        isDrawing, startPoint, currentPoint>>
       ELSE /\ IF activeTool = "pen"
                 THEN /\ IF /\ currentDrawings # <<>>
                            /\ Last(currentDrawings).tool = "pen"
                            /\ Len(Last(currentDrawings).points) > 1
                           THEN saveToHistory(currentDrawings)
                           ELSE UNCHANGED <<drawingHistory, historyIndex>>
                      /\ UNCHANGED currentDrawings
               ELSE IF startPoint # Null /\ currentPoint # Null
                 THEN LET updated == Append(currentDrawings,
                                ShapeDrawing(activeTool, startPoint, currentPoint)) IN
                      /\ currentDrawings' = updated
                      /\ saveToHistory(updated)
               ELSE UNCHANGED <<currentDrawings, drawingHistory, historyIndex>>
            /\ isDrawing' = FALSE
            /\ startPoint' = Null
            /\ currentPoint' = Null
  /\ UNCHANGED <<isAnnotating, activeTool, anglePoints, timeVars, annotations,
                 clock>>
  /\ GhostOfCommit

SelectKeepsAngle(tool) ==
  /\ isAnnotating
  /\ lastEvent' = "tool"
  /\ UNCHANGED <<seekVars, loadVars, storeVars>>
  /\ handed' = NoHanded
  /\ ghost' = NoGhost
  /\ activeTool' = tool
  /\ UNCHANGED <<isAnnotating, currentDrawings, drawingHistory, historyIndex,
                 isDrawing, startPoint, currentPoint, anglePoints, timeVars,
                 annotations, clock>>

\* tool selector onClick (rendered in annotation mode only)
selectTool(tool) ==
  /\ isAnnotating
  /\ lastEvent' = "tool"
  /\ UNCHANGED <<seekVars, loadVars, storeVars>>
  /\ handed' = NoHanded
  /\ ghost' = NoGhost
  /\ activeTool' = tool
  /\ anglePoints' = <<>>
  /\ UNCHANGED <<isAnnotating, currentDrawings, drawingHistory, historyIndex,
                 isDrawing, startPoint, currentPoint, timeVars, annotations,
                 clock>>

\* ---------------------------------------------------- annotation lifecycle
DefaultTicks == DefaultSeconds * TicksPerSec

\* duration ? Math.floor(duration) : 10
DefaultDuration == IF duration # 0 THEN Floor(duration) ELSE DefaultTicks

\* a.startTime ?? a.timestamp
StartOf(a) == IF a.startTime # Missing THEN a.startTime ELSE a.timestamp

\* currentTime <= endTime, with endTime = a.endTime ?? (duration || Infinity)
BeforeEnd(a, t) ==
  IF a.endTime # Missing THEN t <= a.endTime
  ELSE IF duration # 0 THEN t <= duration
  ELSE TRUE

IsActiveExclusiveEnd(a, t) == t >= StartOf(a) /\ BeforeEnd(a, t) /\ t # a.endTime

IsActive(a, t) == t >= StartOf(a) /\ BeforeEnd(a, t)

\* annotations.filter(...) when showAnnotations, else []
activeAnnotations ==
  IF showAnnotations
    THEN SelectSeq(annotations, LAMBDA a : IsActive(a, currentTime))
    ELSE <<>>

\* activeAnnotations[0] || null
activeDisplayAnnotation ==
  IF activeAnnotations = <<>> THEN <<>> ELSE <<activeAnnotations[1]>>

\* the drawings of a list of annotations, in order
RECURSIVE DrawingsOf(_)
DrawingsOf(anns) ==
  IF anns = <<>> THEN <<>>
  ELSE anns[1].drawings \o DrawingsOf(SubSeq(anns, 2, Len(anns)))

\* the 'temp' drawing of the shape in progress
previewDrawing ==
  IF isDrawing /\ startPoint # Null /\ currentPoint # Null /\ activeTool # "angle"
    THEN <<ShapeDrawing(activeTool, startPoint, currentPoint)>>
    ELSE <<>>

\* redrawCanvas: the drawings handed to drawShape, in order
RenderFirstOnly ==
  (IF ~isAnnotating /\ showAnnotations
     THEN DrawingsOf(activeDisplayAnnotation) ELSE <<>>)
  \o (IF isAnnotating THEN currentDrawings \o previewDrawing ELSE <<>>)

renderedDrawings ==
  (IF ~isAnnotating /\ showAnnotations
     THEN DrawingsOf(activeAnnotations) ELSE <<>>)
  \o (IF isAnnotating THEN currentDrawings \o previewDrawing ELSE <<>>)

\* Array.prototype.sort((a, b) => a.timestamp - b.timestamp), stable
RECURSIVE InsertByTimestamp(_, _)
InsertByTimestamp(sorted, a) ==
  IF sorted = <<>> THEN <<a>>
  ELSE IF Last(sorted).timestamp <= a.timestamp THEN Append(sorted, a)
  ELSE Append(InsertByTimestamp(ButLast(sorted), a), Last(sorted))

RECURSIVE SortByTimestamp(_)
SortByTimestamp(s) ==
  IF s = <<>> THEN <<>>
  ELSE InsertByTimestamp(SortByTimestamp(ButLast(s)), Last(s))

\* the onAddAnnotation prop as the player sees it when the update of the
\* message succeeds and is delivered at once: the annotations prop becomes
\* the array computed by ChatInterface.handleAddAnnotation
onAddAnnotation(annotation) ==
  annotations' = SortByTimestamp(Append(annotations, annotation))

\* "Draw" button (rendered in playback mode only)
enterAnnotationMode ==
  /\ ~isAnnotating
  /\ lastEvent' = "enter"
  /\ UNCHANGED <<seekVars, loadVars, storeVars>>
  /\ handed' = NoHanded
  /\ ghost' = NoGhost
  /\ isAnnotating' = TRUE
  /\ annotationDuration' = DefaultDuration
  /\ annotationDurationInput' = DefaultDuration
  /\ drawingHistory' = << <<>> >>
  /\ historyIndex' = 0
  /\ UNCHANGED <<activeTool, currentDrawings, isDrawing, startPoint,
                 currentPoint, anglePoints, currentTime, duration,
                 showAnnotations, annotations, clock>>

ExitKeepsDrawings ==
  /\ isAnnotating' = FALSE
  /\ UNCHANGED currentDrawings
  /\ anglePoints' = <<>>
  /\ annotationDuration' = Missing
  /\ annotationDurationInput' = Missing
  /\ drawingHistory' = <<>>
  /\ historyIndex' = -1

ExitKeepsHistory ==
  /\ isAnnotating' = FALSE
  /\ currentDrawings' = <<>>
  /\ anglePoints' = <<>>
  /\ annotationDuration' = Missing
  /\ annotationDurationInput' = Missing
  /\ UNCHANGED <<drawingHistory, historyIndex>>

exitAnnotationMode ==
  /\ isAnnotating' = FALSE
  /\ currentDrawings' = <<>>
  /\ anglePoints' = <<>>
  /\ annotationDuration' = Missing
  /\ annotationDurationInput' = Missing
  /\ drawingHistory' = <<>>
  /\ historyIndex' = -1

\* annotationDuration || Math.floor(duration) || 10
DisplayDuration ==
  IF annotationDuration # Missing /\ annotationDuration # 0 THEN annotationDuration
  ELSE IF Floor(duration) # 0 THEN Floor(duration)
  ELSE DefaultTicks

\* Math.min(currentTime + displayDuration, duration || Infinity)
EndTimeUnclamped == currentTime + DisplayDuration

EndTime ==
  IF duration # 0 THEN Min(currentTime + DisplayDuration, duration)
  ELSE currentTime + DisplayDuration

NewAnnotation ==
  [id |-> clock, timestamp |-> currentTime, startTime |-> currentTime,
   endTime |-> EndTime, drawings |-> currentDrawings]

\* "Save" button (rendered in annotation mode only)
saveAnnotation ==
  /\ isAnnotating
  /\ lastEvent' = "save"
  /\ UNCHANGED <<seekVars, loadVars, storeVars>>
  /\ ghost' = NoGhost
  /\ onAddAnnotation(NewAnnotation)
  /\ handed' = [set |-> TRUE, ann |-> NewAnnotation, d |-> annotationDuration]
  /\ clock' = clock + 1
  /\ exitAnnotationMode
  /\ UNCHANGED <<activeTool, isDrawing, startPoint, currentPoint,
                 currentTime, duration, showAnnotations>>

CancelHandsOver ==
  /\ isAnnotating
  /\ lastEvent' = "cancel"
  /\ UNCHANGED <<seekVars, loadVars, storeVars>>
  /\ handed' = NoHanded
  /\ ghost' = NoGhost
  /\ onAddAnnotation(NewAnnotation)
  /\ exitAnnotationMode
  /\ UNCHANGED <<activeTool, isDrawing, startPoint, currentPoint,
                 currentTime, duration, showAnnotations, clock>>

\* "Cancel" button (rendered in annotation mode only)
cancelAnnotation ==
  /\ isAnnotating
  /\ lastEvent' = "cancel"
  /\ UNCHANGED <<seekVars, loadVars, storeVars>>
  /\ handed' = NoHanded
  /\ ghost' = NoGhost
  /\ exitAnnotationMode
  /\ UNCHANGED <<activeTool, isDrawing, startPoint, currentPoint,
                 currentTime, duration, showAnnotations, annotations,
                 clock>>

\* duration input onChange: inputVal is Missing for '', else the number typed
durationChange(inputVal) ==
  /\ isAnnotating
  /\ lastEvent' = "durationChange"
  /\ UNCHANGED <<seekVars, loadVars, storeVars>>
  /\ handed' = NoHanded
  /\ ghost' = NoGhost
  /\ annotationDurationInput' = inputVal
  /\ annotationDuration' = IF inputVal = Missing THEN Missing
                           ELSE IF inputVal > 0 THEN inputVal
                           ELSE annotationDuration
  /\ UNCHANGED <<drawVars, currentTime, duration, showAnnotations,
                 annotations, clock>>

\* duration input onBlur
durationBlur ==
  /\ isAnnotating
  /\ lastEvent' = "durationBlur"
  /\ UNCHANGED <<seekVars, loadVars, storeVars>>
  /\ handed' = NoHanded
  /\ ghost' = NoGhost
  /\ IF annotationDurationInput = Missing
       THEN /\ annotationDurationInput' = DefaultDuration
            /\ annotationDuration' = DefaultDuration
       ELSE UNCHANGED <<annotationDurationInput, annotationDuration>>
  /\ UNCHANGED <<drawVars, currentTime, duration, showAnnotations,
                 annotations, clock>>

\* ------------------------------------------------------------ video events
\* onLoadedMetadata: video.duration finite and non-zero
onLoadedMetadata(d) ==
  /\ d # 0
  /\ lastEvent' = "loadedmetadata"
  /\ UNCHANGED <<seekVars, loadVars, storeVars>>
  /\ handed' = NoHanded
  /\ ghost' = NoGhost
  /\ duration' = d
  /\ UNCHANGED <<drawVars, currentTime, annotationDuration,
                 annotationDurationInput, showAnnotations, annotations,
                 clock>>

\* onTimeUpdate: the position t of the element is taken unless isSeeking
onTimeUpdate(t) ==
  /\ lastEvent' = "timeupdate"
  /\ UNCHANGED <<seekVars, loadVars, storeVars>>
  /\ handed' = NoHanded
  /\ ghost' = NoGhost
  /\ currentTime' = IF ~isSeeking THEN t ELSE currentTime
  /\ UNCHANGED <<drawVars, duration, annotationDuration,
                 annotationDurationInput, showAnnotations, annotations,
                 clock>>

\* annotation list entry onClick (rendered in playback mode only)
seekToAnnotation(a) ==
  /\ ~isAnnotating
  /\ lastEvent' = "seekToAnnotation"
  /\ UNCHANGED <<seekVars, loadVars, storeVars>>
  /\ handed' = NoHanded
  /\ ghost' = NoGhost
  /\ currentTime' = StartOf(a)
  /\ UNCHANGED <<drawVars, duration, annotationDuration,
                 annotationDurationInput, showAnnotations, annotations,
                 clock>>

\* Show/Hide button (rendered in playback mode, when annotations exist)
toggleShowAnnotations ==
  /\ ~isAnnotating
  /\ annotations # <<>>
  /\ lastEvent' = "toggleShow"
  /\ UNCHANGED <<seekVars, loadVars, storeVars>>
  /\ handed' = NoHanded
  /\ ghost' = NoGhost
  /\ showAnnotations' = ~showAnnotations
  /\ UNCHANGED <<drawVars, currentTime, duration, annotationDuration,
                 annotationDurationInput, annotations, clock>>

\* ------------------------------------------------------------------ seeking
Max(a, b) == IF a >= b THEN a ELSE b

\* the scrubber track on the screen, and pointer positions on and beside it
ScrubberLeft == 0
ScrubberWidth == 1
ClientXs == {-1, 0, 1, 2}

\* getTimeFromPosition: percentage * videoDuration, the percentage clamped to
\* [0, 1]; the duration of the element is the duration state once the
\* metadata is known
getTimeFromPosition(clientX) ==
  IF duration = 0 THEN 0
  ELSE (Max(0, Min(ScrubberWidth, clientX - ScrubberLeft)) * duration)
         \div ScrubberWidth

\* updateVideoTime(time, true): every caller forces the update
updateVideoTime(time) ==
  IF duration = 0 THEN UNCHANGED <<seekRef, currentTime>>
  ELSE IF time >= 0 /\ time <= duration
    THEN LET clampedTime == Max(0, Min(time, duration)) IN
         /\ seekRef' = clampedTime
         /\ currentTime' = clampedTime
    ELSE UNCHANGED <<seekRef, currentTime>>

seekFrame ==
  /\ ghost' = NoGhost
  /\ handed' = NoHanded
  /\ UNCHANGED <<drawVars, duration, annotationDuration,
                 annotationDurationInput, showAnnotations, annotations,
                 loadVars, storeVars, clock>>

\* the continuous update loop effect, run when isSeeking has changed: its
\* cleanup cancels the frame requested, and it requests a frame when
\* isSeeking and isDraggingRef.current are set
loopEffect ==
  rafSeekRef' = IF isSeeking' = isSeeking THEN rafSeekRef
                ELSE isSeeking' /\ isDragging'

\* updateLoop, the callback of requestAnimationFrame
updateLoop ==
  /\ rafSeekRef
  /\ lastEvent' = "frame"
  /\ IF isDragging /\ seekRef # Missing
       THEN /\ currentTime' = seekRef
            /\ UNCHANGED rafSeekRef
       ELSE /\ rafSeekRef' = FALSE
            /\ UNCHANGED currentTime
  /\ UNCHANGED <<seekRef, isSeeking, isDragging, seekTimers>>
  /\ seekFrame

\* scrubber track onMouseDown / onTouchStart (playback mode only)
handleScrubberMouseDown(clientX) ==
  /\ ~isAnnotating
  /\ lastEvent' = "scrubDown"
  /\ isSeeking' = TRUE
  /\ isDragging' = TRUE
  /\ updateVideoTime(getTimeFromPosition(clientX))
  /\ loopEffect
  /\ UNCHANGED seekTimers
  /\ seekFrame

\* document mousemove / touchmove, listened to while isSeeking
handleScrubberMouseMove(clientX) ==
  /\ isSeeking
  /\ lastEvent' = "scrubMove"
  /\ IF ~isDragging
       THEN UNCHANGED <<seekRef, currentTime>>
       ELSE updateVideoTime(getTimeFromPosition(clientX))
  /\ UNCHANGED <<isSeeking, isDragging, seekTimers, rafSeekRef>>
  /\ seekFrame

\* the end of a drag: the final position is set and isSeeking is cleared by
\* a timer 100 ms later
EndOfDragKeepsLoop ==
  /\ isDragging' = FALSE
  /\ currentTime' = IF seekRef # Missing THEN seekRef ELSE currentTime
  /\ seekTimers' = seekTimers + 1
  /\ UNCHANGED <<seekRef, isSeeking, rafSeekRef>>

endOfDrag ==
  /\ isDragging' = FALSE
  /\ rafSeekRef' = FALSE
  /\ currentTime' = IF seekRef # Missing THEN seekRef ELSE currentTime
  /\ seekTimers' = seekTimers + 1
  /\ UNCHANGED <<seekRef, isSeeking>>

\* document mouseup / touchend, listened to while isSeeking
handleScrubberMouseUp ==
  /\ isSeeking
  /\ lastEvent' = "scrubUp"
  /\ IF ~isDragging
       THEN UNCHANGED <<seekVars, currentTime>>
       ELSE endOfDrag
  /\ seekFrame

\* the timer started at the end of a drag
seekTimeout ==
  /\ seekTimers > 0
  /\ lastEvent' = "seekTimeout"
  /\ seekTimers' = seekTimers - 1
  /\ isSeeking' = FALSE
  /\ seekRef' = Missing
  /\ loopEffect
  /\ UNCHANGED <<isDragging, currentTime>>
  /\ seekFrame

\* range input onMouseDown / onTouchStart (disabled while duration is 0)
handleSeekStart ==
  /\ ~isAnnotating
  /\ duration # 0
  /\ lastEvent' = "seekStart"
  /\ isSeeking' = TRUE
  /\ isDragging' = TRUE
  /\ loopEffect
  /\ UNCHANGED <<seekRef, seekTimers, currentTime>>
  /\ seekFrame

\* range input onChange / onInput
handleSeek(time) ==
  /\ ~isAnnotating
  /\ duration # 0
  /\ lastEvent' = "seek"
  /\ updateVideoTime(time)
  /\ UNCHANGED <<isSeeking, isDragging, seekTimers, rafSeekRef>>
  /\ seekFrame

\* range input onMouseUp / onTouchEnd
handleSeekEnd ==
  /\ ~isAnnotating
  /\ duration # 0
  /\ lastEvent' = "seekEnd"
  /\ endOfDrag
  /\ seekFrame

\* ---------------------------------------------------------- the video source
\* the src prop by its prefix; "" is no source, "http" any other key
SrcKeys == {"", "data:", "supabase:", "blob:", "indexeddb:", "http"}

\* getVideo: what it resolves to, and the keys for which it can reject (a
\* blob URL of an earlier session, a key missing from IndexedDB)
ResolvedUrl(key) ==
  IF key = "supabase:" THEN "https:"
  ELSE IF key = "indexeddb:" THEN "blob:created"
  ELSE key

CanReject(key) == key \in {"blob:", "indexeddb:"}

RemoveAt(seq, i) == SubSeq(seq, 1, i - 1) \o SubSeq(seq, i + 1, Len(seq))

loadFrame ==
  /\ ghost' = NoGhost
  /\ handed' = NoHanded
  /\ UNCHANGED <<drawVars, annotationDuration, annotationDurationInput,
                 showAnnotations, annotations, seekVars, storeVars, clock>>

ChangeSrcNoCleanup(newSrc) ==
  /\ newSrc # src
  /\ lastEvent' = "changeSrc"
  /\ src' = newSrc
  /\ duration' = 0
  /\ currentTime' = 0
  /\ IF newSrc # ""
       THEN /\ isLoading' = TRUE
            /\ loads' = Append(loads, [key |-> newSrc, isMounted |-> TRUE])
            /\ loadCount' = loadCount + 1
            /\ UNCHANGED videoSrc
       ELSE /\ isLoading' = FALSE
            /\ videoSrc' = ""
            /\ UNCHANGED <<loads, loadCount>>
  /\ loadFrame

\* the load effect, run again when the src prop changes: the cleanup of the
\* previous run clears its isMounted, then the state is reset and getVideo
\* is called for the new src
changeSrc(newSrc) ==
  /\ newSrc # src
  /\ lastEvent' = "changeSrc"
  /\ src' = newSrc
  /\ duration' = 0
  /\ currentTime' = 0
  /\ LET unmounted == [i \in 1..Len(loads) |->
                         [loads[i] EXCEPT !.isMounted = FALSE]] IN
     IF newSrc # ""
       THEN /\ isLoading' = TRUE
            /\ loads' = Append(unmounted, [key |-> newSrc, isMounted |-> TRUE])
            /\ loadCount' = loadCount + 1
            /\ UNCHANGED videoSrc
       ELSE /\ isLoading' = FALSE
            /\ videoSrc' = ""
            /\ loads' = unmounted
            /\ UNCHANGED loadCount
  /\ loadFrame

\* getVideo(src) resolves, for the i-th call under way
getVideoResolved(i) ==
  /\ lastEvent' = "getVideoResolved"
  /\ IF loads[i].isMounted
       THEN /\ videoSrc' = ResolvedUrl(loads[i].key)
            /\ isLoading' = FALSE
       ELSE UNCHANGED <<videoSrc, isLoading>>
  /\ loads' = RemoveAt(loads, i)
  /\ UNCHANGED <<src, loadCount, duration, currentTime>>
  /\ loadFrame

\* getVideo(src) rejects: the catch block of loadVideo
RejectedTriesSrc(i) ==
  /\ CanReject(loads[i].key)
  /\ lastEvent' = "getVideoRejected"
  /\ IF loads[i].isMounted
       THEN /\ videoSrc' = loads[i].key
            /\ isLoading' = FALSE
       ELSE UNCHANGED <<videoSrc, isLoading>>
  /\ loads' = RemoveAt(loads, i)
  /\ UNCHANGED <<src, loadCount, duration, currentTime>>
  /\ loadFrame

getVideoRejected(i) ==
  /\ CanReject(loads[i].key)
  /\ lastEvent' = "getVideoRejected"
  /\ IF loads[i].isMounted
       THEN /\ videoSrc' = IF loads[i].key = "blob:" THEN ""
                           ELSE IF loads[i].key \in {"data:", "http"}
                             THEN loads[i].key
                           ELSE ""
            /\ isLoading' = FALSE
       ELSE UNCHANGED <<videoSrc, isLoading>>
  /\ loads' = RemoveAt(loads, i)
  /\ UNCHANGED <<src, loadCount, duration, currentTime>>
  /\ loadFrame

\* ------------------------------------------------------- the message store
\* the fields of message.metadata other than annotations (duration,
\* thumbnailUrl, fileSize, aiSummary), copied by the spread
MetadataRest == "metadata"

\* the updates argument of onUpdateMessage
MetadataUpdate(newAnnotations) ==
  [annotations |-> newAnnotations, rest |-> MetadataRest]

playerVars == <<drawVars, timeVars, seekVars, loadVars>>

AddNoSort(annotation) ==
  /\ lastEvent' = "add"
  /\ ghost' = NoGhost
  /\ handed' = NoHanded
  /\ inflight' = Append(inflight, MetadataUpdate(Append(annotations, annotation)))
  /\ UNCHANGED <<playerVars, annotations, updateCalls, alerts, clock>>

\* ChatInterface.handleAddAnnotation: the update is computed from the
\* messages prop of the last render and handed to onUpdateMessage
handleAddAnnotation(annotation) ==
  /\ lastEvent' = "add"
  /\ ghost' = NoGhost
  /\ handed' = NoHanded
  /\ inflight' = Append(inflight,
        MetadataUpdate(SortByTimestamp(Append(annotations, annotation))))
  /\ UNCHANGED <<playerVars, annotations, updateCalls, alerts, clock>>

\* ChatInterface.handleDeleteAnnotation
DeleteByTimestamp(annotationId) ==
  /\ lastEvent' = "delete"
  /\ ghost' = DeleteGhost(annotationId)
  /\ handed' = NoHanded
  /\ inflight' = Append(inflight,
        MetadataUpdate(SelectSeq(annotations,
                                 LAMBDA ann : ann.timestamp # annotationId)))
  /\ UNCHANGED <<playerVars, annotations, updateCalls, alerts, clock>>

handleDeleteAnnotation(annotationId) ==
  /\ lastEvent' = "delete"
  /\ ghost' = DeleteGhost(annotationId)
  /\ handed' = NoHanded
  /\ inflight' = Append(inflight,
        MetadataUpdate(SelectSeq(annotations,
                                 LAMBDA ann : ann.id # annotationId)))
  /\ UNCHANGED <<playerVars, annotations, updateCalls, alerts, clock>>

\* CommunicationService.updateMessage, the update succeeds: the row is
\* written, the messages are loaded again and the listeners notified, so
\* that the annotations prop is the stored array
updateMessageOk ==
  /\ inflight # <<>>
  /\ lastEvent' = "updateOk"
  /\ ghost' = NoGhost
  /\ handed' = NoHanded
  /\ updateCalls' = updateCalls + 1
  /\ annotations' = Head(inflight).annotations
  /\ inflight' = Tail(inflight)
  /\ UNCHANGED <<playerVars, alerts, clock>>

\* CommunicationService.updateMessage, the update fails: the catch block
\* logs the error; handleUpdateMessage awaits a promise that resolves
updateMessageError ==
  /\ inflight # <<>>
  /\ lastEvent' = "updateError"
  /\ ghost' = NoGhost
  /\ handed' = NoHanded
  /\ updateCalls' = updateCalls + 1
  /\ inflight' = Tail(inflight)
  /\ UNCHANGED <<playerVars, annotations, alerts, clock>>

\* ------------------------------------------------------------ specifications
\* annotations already stored on the message when the player is mounted;
\* startTime and endTime are optional fields of Annotation, and nothing ties
\* the times of a stored annotation to the length of the video
StoredDrawing ==
  [tool |-> "arrow", points |-> <<>>, start |-> <<0, 0>>, end |-> <<2, 0>>,
   timestamp |-> 2, text |-> NoText]

StoredAnnotations ==
  {[id |-> 0, timestamp |-> 2, startTime |-> s, endTime |-> e,
    drawings |-> <<StoredDrawing>>] :
     s \in {Missing, 1}, e \in {Missing, 2}}

\* state after construction (the useState initial values)
InitPlayer ==
  /\ isAnnotating = FALSE
  /\ activeTool = "pen"
  /\ currentDrawings = <<>>
  /\ drawingHistory = <<>>
  /\ historyIndex = -1
  /\ isDrawing = FALSE
  /\ startPoint = Null
  /\ currentPoint = Null
  /\ anglePoints = <<>>
  /\ currentTime = 0
  /\ duration = 0
  /\ annotationDuration = Missing
  /\ annotationDurationInput = Missing
  /\ showAnnotations = TRUE
  /\ seekRef = Missing
  /\ isSeeking = FALSE
  /\ isDragging = FALSE
  /\ seekTimers = 0
  /\ rafSeekRef = FALSE
  /\ inflight = <<>>
  /\ updateCalls = 0
  /\ alerts = 0
  /\ clock = 1
  /\ lastEvent = "init"
  /\ ghost = NoGhost
  /\ handed = NoHanded

\* the video of the message has been resolved: the load effect has run for
\* src and the <video> element and the canvas are rendered
VideoReady ==
  /\ src = "http"
  /\ videoSrc = "http"
  /\ isLoading = FALSE
  /\ loads = <<>>
  /\ loadCount = 1

Init ==
  /\ InitPlayer
  /\ VideoReady
  /\ annotations = <<>>

InitTime ==
  /\ InitPlayer
  /\ VideoReady
  /\ annotations \in {<<>>} \cup {<<a>> : a \in StoredAnnotations}

\* the size of a state: a pen stroke counts for its points and any other
\* drawing for one, in the active drawing set and in the annotations kept on
\* the message; each history entry and each annotation counts for one more
Weight(d) == IF d.tool = "pen" THEN Len(d.points) ELSE 1

RECURSIVE DrawingsSize(_)
DrawingsSize(ds) ==
  IF ds = <<>> THEN 0 ELSE Weight(Last(ds)) + DrawingsSize(ButLast(ds))

RECURSIVE SavedSize(_)
SavedSize(anns) ==
  IF anns = <<>> THEN 0
  ELSE 1 + DrawingsSize(Last(anns).drawings) + SavedSize(ButLast(anns))

\* the bound of the model, as a condition on the state an action leads to
WithinBounds ==
  Len(drawingHistory) + DrawingsSize(currentDrawings) + SavedSize(annotations)
    <= MaxSize

PointerDown == \E p \in DownPoints : handlePointerDown(p) /\ WithinBounds'
PointerMove == \E p \in Points : handlePointerMove(p) /\ WithinBounds'
PointerUp == handlePointerUp /\ WithinBounds'
SelectTool == \E tool \in Tools : selectTool(tool)
Undo == isAnnotating /\ handleUndo /\ WithinBounds'
Redo == isAnnotating /\ handleRedo /\ WithinBounds'
Clear == isAnnotating /\ handleClear /\ WithinBounds'
Enter == enterAnnotationMode /\ WithinBounds'
Save == saveAnnotation /\ WithinBounds'
Cancel == cancelAnnotation

Next ==
  \/ PointerDown
  \/ PointerMove
  \/ PointerUp
  \/ SelectTool
  \/ Undo
  \/ Redo
  \/ Clear
  \/ Enter
  \/ Save
  \/ Cancel

Spec == Init /\ [][Next]_vars

\* the pen tool alone, on the samples of PenPoints
PenDown == \E p \in PenPoints : activeTool = "pen" /\ handlePointerDown(p) /\ WithinBounds'
PenMove == \E p \in PenPoints : activeTool = "pen" /\ handlePointerMove(p) /\ WithinBounds'

NextPen ==
  \/ PenDown
  \/ PenMove
  \/ PointerUp
  \/ Enter
  \/ Cancel

SpecPen == Init /\ [][NextPen]_vars

\* the three shape tools, with switches between them
AllShapeTools == {"line", "arrow", "circle"}

SelectShape == \E tool \in AllShapeTools : selectTool(tool)

NextShape ==
  \/ PointerDown
  \/ PointerMove
  \/ PointerUp
  \/ SelectShape
  \/ Undo
  \/ Clear
  \/ Enter
  \/ Cancel

SpecShape == Init /\ [][NextShape]_vars

\* the angle tool on clicks that are told apart, with tool switches
AnglePoints == {<<0, 0>>, <<2, 0>>}

AngleDown ==
  \E p \in AnglePoints :
    activeTool = "angle" /\ handlePointerDown(p) /\ WithinBounds'

NextAngle ==
  \/ AngleDown
  \/ SelectTool
  \/ Undo
  \/ Clear
  \/ Enter
  \/ Cancel

SpecAngle == Init /\ [][NextAngle]_vars

\* the annotation lifecycle over playback time
\* playback positions; video durations, one below a second and one above;
\* values typed into the duration input
Times == 0..MaxTime
Durations == {1, MaxTime}
DurationInputs == {Missing, 0, 1, 2}

SaveTimed == saveAnnotation /\ Len(annotations') <= MaxAnnotations
DurationChange == \E v \in DurationInputs : durationChange(v)
DurationBlur == durationBlur
\* the metadata of the source arrives once; the element reports positions
\* within its duration, and 0 before the duration is known
LoadedMetadata == \E d \in Durations : duration = 0 /\ onLoadedMetadata(d)
TimeUpdate == \E t \in Times : t <= duration /\ onTimeUpdate(t)
\* the entries of the annotation list are the annotations that have drawings
SeekToAnnotation ==
  \E i \in 1..Len(annotations) :
    annotations[i].drawings # <<>> /\ seekToAnnotation(annotations[i])
ToggleShow == toggleShowAnnotations

NextTime ==
  \/ Enter
  \/ SaveTimed
  \/ Cancel
  \/ DurationChange
  \/ DurationBlur
  \/ LoadedMetadata
  \/ TimeUpdate
  \/ SeekToAnnotation
  \/ ToggleShow

SpecTime == InitTime /\ [][NextTime]_vars

\* seeking: the scrubber track, the range input (its value lies between its
\* min 0 and its max, the duration), the annotation list and the video events
ScrubberMouseDown == \E x \in ClientXs : handleScrubberMouseDown(x)
ScrubberMouseMove == \E x \in ClientXs : handleScrubberMouseMove(x)
ScrubberMouseUp == handleScrubberMouseUp /\ seekTimers' <= MaxTimers
SeekTimeout == seekTimeout
SeekStart == handleSeekStart
Seek == \E t \in Times : t <= duration /\ handleSeek(t)
SeekEnd == handleSeekEnd /\ seekTimers' <= MaxTimers
UpdateLoop == updateLoop

NextSeek ==
  \/ ScrubberMouseDown
  \/ ScrubberMouseMove
  \/ ScrubberMouseUp
  \/ SeekTimeout
  \/ SeekStart
  \/ Seek
  \/ SeekEnd
  \/ UpdateLoop
  \/ LoadedMetadata
  \/ TimeUpdate
  \/ SeekToAnnotation

SpecSeek == InitTime /\ [][NextSeek]_vars

\* the video source: the player is mounted with any src and the load effect
\* has run once; the video events need the <video> element
InitLoad ==
  /\ InitPlayer
  /\ annotations = <<>>
  /\ src \in SrcKeys
  /\ videoSrc = ""
  /\ isLoading = (src # "")
  /\ loads = IF src # "" THEN <<[key |-> src, isMounted |-> TRUE]>> ELSE <<>>
  /\ loadCount = IF src # "" THEN 1 ELSE 0

VideoElement == ~isLoading /\ videoSrc # ""

ChangeSrc == \E newSrc \in SrcKeys : changeSrc(newSrc) /\ loadCount' <= MaxLoads
GetVideoResolved == \E i \in 1..Len(loads) : getVideoResolved(i)
GetVideoRejected == \E i \in 1..Len(loads) : getVideoRejected(i)
VideoLoadedMetadata == VideoElement /\ LoadedMetadata
VideoTimeUpdate == VideoElement /\ TimeUpdate

NextLoad ==
  \/ ChangeSrc
  \/ GetVideoResolved
  \/ GetVideoRejected
  \/ VideoLoadedMetadata
  \/ VideoTimeUpdate

SpecLoad == InitLoad /\ [][NextLoad]_vars

\* the annotations of a message in the store: annotations saved earlier, kept
\* sorted by timestamp, two of them at the same timestamp or with the same id
StoreAnnotation(i, t) ==
  [id |-> i, timestamp |-> t, startTime |-> t, endTime |-> t + 1,
   drawings |-> <<StoredDrawing>>]

StoredLists ==
  {<<>>,
   <<StoreAnnotation(10, 1)>>,
   <<StoreAnnotation(10, 0), StoreAnnotation(11, 1)>>,
   <<StoreAnnotation(10, 0), StoreAnnotation(11, 1), StoreAnnotation(12, 1)>>,
   <<StoreAnnotation(10, 0), StoreAnnotation(11, 1), StoreAnnotation(10, 2)>>}

InitStore ==
  /\ InitPlayer
  /\ VideoReady
  /\ annotations \in StoredLists

\* ids of the annotations that exist or are about to
RECURSIVE IdsOf(_)
IdsOf(anns) ==
  IF anns = <<>> THEN {} ELSE {Last(anns).id} \cup IdsOf(ButLast(anns))

RECURSIVE InflightIds(_)
InflightIds(reqs) ==
  IF reqs = <<>> THEN {}
  ELSE IdsOf(Last(reqs).annotations) \cup InflightIds(ButLast(reqs))

\* an annotation saved by the player arrives with a new id; the delete
\* buttons are those of the annotations shown; an update is under way for
\* at most MaxUpdates requests in all
AddAnnotation ==
  \E i \in {20, 21}, t \in 0..2 :
    /\ updateCalls + Len(inflight) < MaxUpdates
    /\ i \notin IdsOf(annotations) \cup InflightIds(inflight)
    /\ handleAddAnnotation(StoreAnnotation(i, t))
DeleteAnnotation ==
  \E i \in 1..Len(annotations) :
    /\ updateCalls + Len(inflight) < MaxUpdates
    /\ handleDeleteAnnotation(annotations[i].id)
UpdateMessageOk == updateMessageOk
UpdateMessageError == updateMessageError

\* playback and editing over the annotations of a message
NextRender ==
  \/ LoadedMetadata
  \/ TimeUpdate
  \/ ToggleShow
  \/ Enter
  \/ Cancel
  \/ PointerDown
  \/ PointerMove
  \/ PointerUp

SpecRender == InitStore /\ [][NextRender]_vars

\* saves alone, each update succeeding
NextSaves ==
  \/ AddAnnotation
  \/ UpdateMessageOk

SpecSaves == InitStore /\ [][NextSaves]_vars

NextStore ==
  \/ AddAnnotation
  \/ DeleteAnnotation
  \/ UpdateMessageOk
  \/ UpdateMessageError

SpecStore == InitStore /\ [][NextStore]_vars

\* ------------------------------------------------------------------ claims

\* C1: from a state with history index > 0, undo followed immediately by
\* redo leaves the history list and the index as they were and makes the
\* active drawing set equal to the snapshot that was current before the undo.
C1_UndoRedoRestores ==
  (lastEvent = "redo" /\ ghost.kind = "undo") =>
    /\ drawingHistory = ghost.hist
    /\ historyIndex = ghost.idx
    /\ currentDrawings = ghost.hist[ghost.idx + 1]

C1_Witness ==
  /\ lastEvent = "redo"
  /\ ghost.kind = "undo"
  /\ ghost.idx = 2
  /\ currentDrawings # <<>>

\* C2: a commit made while the index is not at the last entry discards the
\* entries after the index: the new snapshot is the last entry, the index
\* points at it, the entries at or below the old index are unchanged, and
\* redo has nothing to do.
C2_CommitDiscardsRedoPath ==
  (ghost.kind = "commit" /\ ghost.cut > 0) =>
    /\ Len(drawingHistory) = ghost.idx + 2
    /\ Last(drawingHistory) = currentDrawings
    /\ historyIndex = Len(drawingHistory) - 1
    /\ SubSeq(drawingHistory, 1, ghost.idx + 1) = ghost.hist
    /\ ~RedoEnabled

C2_Witness ==
  /\ ghost.kind = "commit"
  /\ ghost.cut > 0
  /\ ghost.idx = 1
  /\ ghost.hist[2] # <<>>
  /\ currentDrawings # <<>>

\* C3: undo changes nothing of history, index and drawing set when the index
\* is 0 or less; otherwise it decrements the index by one, leaves the history
\* list unchanged and makes the drawing set the snapshot at the new index.
C3_Undo ==
  [][lastEvent' = "undo" =>
       IF historyIndex <= 0
         THEN UNCHANGED <<drawingHistory, historyIndex, currentDrawings>>
         ELSE /\ historyIndex' = historyIndex - 1
              /\ drawingHistory' = drawingHistory
              /\ currentDrawings' = drawingHistory'[historyIndex' + 1]]_vars

C3_Witness ==
  /\ lastEvent = "undo"
  /\ ghost.kind = "undo"
  /\ historyIndex = ghost.idx - 1
  /\ currentDrawings = drawingHistory[historyIndex + 1]
  /\ currentDrawings # ghost.hist[ghost.idx + 1]

\* C4: redo changes nothing of history, index and drawing set when the index
\* is at the last entry; otherwise it increments the index by one, leaves the
\* history list unchanged and makes the drawing set the snapshot at the new
\* index.
C4_Redo ==
  [][lastEvent' = "redo" =>
       IF historyIndex >= Len(drawingHistory) - 1
         THEN UNCHANGED <<drawingHistory, historyIndex, currentDrawings>>
         ELSE /\ historyIndex' = historyIndex + 1
              /\ drawingHistory' = drawingHistory
              /\ currentDrawings' = drawingHistory'[historyIndex' + 1]]_vars

C4_Witness ==
  /\ lastEvent = "redo"
  /\ ghost.kind = "undo"
  /\ historyIndex = ghost.idx
  /\ historyIndex = 1
  /\ Len(drawingHistory) = 3
  /\ currentDrawings = drawingHistory[2]
  /\ currentDrawings # <<>>

\* C5: whenever annotation mode is entered, also after a save or a cancel,
\* the history is exactly one empty snapshot, the index is 0 and the active
\* drawing set is empty.
C5_EnterStartsClean ==
  lastEvent = "enter" =>
    /\ isAnnotating
    /\ drawingHistory = << <<>> >>
    /\ historyIndex = 0
    /\ currentDrawings = <<>>

C5_Witness ==
  /\ lastEvent = "enter"
  /\ annotations # <<>>
  /\ annotations[1].drawings # <<>>

\* C6: a pen stroke that ends with fewer than 2 points is dropped: no pen
\* drawing with fewer than 2 points ever appears in a history snapshot.
C6_NoShortPenInHistory ==
  \A i \in 1..Len(drawingHistory) :
    \A j \in 1..Len(drawingHistory[i]) :
      drawingHistory[i][j].tool = "pen" => Len(drawingHistory[i][j].points) >= 2

\* C7: the drawings of a saved annotation are exactly the committed drawing
\* set, the snapshot at the history index at the moment of the save.
C7_SavedIsCommitted ==
  [][lastEvent' = "save" => handed'.ann.drawings = HistoryAt(historyIndex)]_vars

\* C8 (as stated): during a pen stroke a pointer-move appends its point only
\* if its distance from the last recorded point is strictly greater than 2;
\* a point at distance 2 or less is not recorded.
C8_StrictThreshold ==
  [][(/\ lastEvent' = "move"
      /\ isAnnotating /\ isDrawing /\ activeTool = "pen"
      /\ currentDrawings # <<>>
      /\ Last(currentDrawings).tool = "pen")
     => LET last == Last(currentDrawings)
            lastPoint == Last(last.points)
            point == currentPoint'
        IN IF Dist2(point, lastPoint) > MinDist * MinDist
             THEN currentDrawings' =
                    Append(ButLast(currentDrawings),
                           [last EXCEPT !.points = Append(last.points, point)])
             ELSE currentDrawings' = currentDrawings]_vars

\* C8 (amended): during a pen stroke a pointer-move appends its point if and
\* only if its distance from the last recorded point is at least 2; a point
\* closer than 2 is not recorded.
C8_Threshold ==
  [][(/\ lastEvent' = "move"
      /\ isAnnotating /\ isDrawing /\ activeTool = "pen"
      /\ currentDrawings # <<>>
      /\ Last(currentDrawings).tool = "pen")
     => LET last == Last(currentDrawings)
            lastPoint == Last(last.points)
            point == currentPoint'
        IN IF Dist2(point, lastPoint) >= MinDist * MinDist
             THEN currentDrawings' =
                    Append(ButLast(currentDrawings),
                           [last EXCEPT !.points = Append(last.points, point)])
             ELSE currentDrawings' = currentDrawings]_vars

C8_Witness ==
  /\ lastEvent = "move"
  /\ isDrawing
  /\ currentDrawings # <<>>
  /\ Last(currentDrawings).points = << <<0, 0>>, <<2, 0>> >>

\* C9 (as stated): with display enabled, the active annotations at playback
\* time T are exactly those with startTime <= T <= endTime, both inclusive,
\* a missing startTime being the timestamp and a missing endTime the video
\* duration.
C9_InRangeDurationDefault(a) ==
  LET st == IF a.startTime # Missing THEN a.startTime ELSE a.timestamp
      en == IF a.endTime # Missing THEN a.endTime ELSE duration
  IN st <= currentTime /\ currentTime <= en

C9_ActiveDefaultsToDuration ==
  showAnnotations =>
    activeAnnotations = SelectSeq(annotations, C9_InRangeDurationDefault)

\* C9 (amended): the same, a missing endTime being the video duration once
\* it is known and no upper bound at all while it is unknown (0).
C9_InRange(a) ==
  LET st == IF a.startTime # Missing THEN a.startTime ELSE a.timestamp
  IN /\ st <= currentTime
     /\ a.endTime # Missing => currentTime <= a.endTime
     /\ (a.endTime = Missing /\ duration # 0) => currentTime <= duration

C9_ActiveInRange ==
  showAnnotations => activeAnnotations = SelectSeq(annotations, C9_InRange)

C9_Witness ==
  /\ showAnnotations
  /\ Len(annotations) = 1
  /\ annotations[1].endTime # Missing
  /\ StartOf(annotations[1]) < annotations[1].endTime
  /\ currentTime = annotations[1].endTime
  /\ activeAnnotations = annotations

\* C10 (as stated): a save at playback time t with a configured
\* display-duration d on a video of known duration D hands over an
\* annotation with timestamp = startTime = t and endTime = min(t + d, D).
C10_SavedRange ==
  [][(lastEvent' = "save" /\ annotationDuration # Missing /\ duration # 0) =>
       /\ handed'.ann.timestamp = currentTime
       /\ handed'.ann.startTime = currentTime
       /\ handed'.ann.endTime = Min(currentTime + annotationDuration, duration)]_vars

\* C10 (amended): the same for a configured display-duration d > 0.
C10_SavedRangePositive ==
  [][(lastEvent' = "save" /\ annotationDuration # Missing
        /\ annotationDuration > 0 /\ duration # 0) =>
       /\ handed'.ann.timestamp = currentTime
       /\ handed'.ann.startTime = currentTime
       /\ handed'.ann.endTime = Min(currentTime + annotationDuration, duration)]_vars

C10_Witness ==
  /\ lastEvent = "save"
  /\ handed.set
  /\ handed.d > 0
  /\ duration # 0
  /\ handed.ann.timestamp > 0
  /\ handed.ann.endTime = handed.ann.timestamp + handed.d
  /\ handed.ann.endTime < duration

\* C11: a save without an explicit display-duration (the default is kept, or
\* the input is left empty) on a video of known duration D, at a playback
\* time in [0, D], hands over an annotation whose endTime is D.
C11_NoExplicitDuration ==
  \/ annotationDuration = Missing
  \/ annotationDuration = DefaultDuration
  \/ annotationDuration = DefaultTicks

C11_DefaultEndsAtDuration ==
  [][(/\ lastEvent' = "save"
      /\ duration # 0
      /\ currentTime <= duration
      /\ C11_NoExplicitDuration)
     => handed'.ann.endTime = duration]_vars

\* C12: every annotation produced by a save has startTime <= endTime.
C12_StartBeforeEnd ==
  handed.set => handed.ann.startTime <= handed.ann.endTime

\* C13: a delete hands to the message store the previous annotations minus
\* those whose id matches, the others with unchanged fields and in unchanged
\* order, and the rest of the metadata as it was; an add hands over the
\* previous annotations, unchanged and in unchanged order, plus the new one;
\* neither edits the annotations in place, and a successful update makes
\* the handed array the annotations of the message.
C13_Without(anns, k) ==
  SubSeq(anns, 1, k - 1) \o SubSeq(anns, k + 1, Len(anns))

C16_FailureAlerts ==
  [][lastEvent' = "updateError" =>
       /\ inflight' = Tail(inflight)
       /\ updateCalls' = updateCalls + 1
       /\ alerts' = alerts + 1]_vars

\* C14: a seek never leaves the playback position outside [0, duration]: a
\* request for a time outside it is clamped to the nearest bound.
C14_SeekEvents ==
  {"scrubDown", "scrubMove", "scrubUp", "seekStart", "seek", "seekEnd",
   "seekToAnnotation"}

C14_SeekClamped ==
  (lastEvent \in C14_SeekEvents /\ duration # 0) =>
    (0 <= currentTime /\ currentTime <= duration)

\* C15: when getVideo rejects for the src of the player, the player is in
\* the "video unavailable" state (not loading, no video source), and it
\* stays there with no further call of getVideo as long as the src does not
\* change.
C15_Unavailable == ~isLoading /\ videoSrc = ""

C15_RejectedIsTerminal ==
  [][/\ (lastEvent' = "getVideoRejected"
          /\ \E i \in 1..Len(loads) :
                loads[i].isMounted /\ loads' = RemoveAt(loads, i))
          => C15_Unavailable'
     /\ (C15_Unavailable /\ src' = src)
          => (C15_Unavailable' /\ loadCount' = loadCount)]_vars

C15_Witness ==
  /\ lastEvent = "getVideoRejected"
  /\ C15_Unavailable
  /\ src = "indexeddb:"
  /\ loadCount = 2
  /\ loads # <<>>

\* C17: with the angle tool a pointer-down appends the clicked point to the
\* accumulator; the 3rd point appends to the active drawing set one angle
\* Drawing holding the 3 points in click order and a text label, commits the
\* new set as one new snapshot and empties the accumulator.  The accumulator
\* never holds more than 2 points, and every angle drawing of the active set
\* and of every snapshot has exactly 3 points.
C17_ThreePoints(ds) ==
  \A i \in 1..Len(ds) : ds[i].tool = "angle" => Len(ds[i].points) = 3

C17_Shape ==
  /\ Len(anglePoints) <= 2
  /\ C17_ThreePoints(currentDrawings)
  /\ \A k \in 1..Len(drawingHistory) : C17_ThreePoints(drawingHistory[k])

C17_AngleCompletes ==
  [][/\ C17_Shape'
     /\ (lastEvent' = "down" /\ isAnnotating /\ activeTool = "angle")
          => IF Len(anglePoints) < 2
               THEN /\ \E p \in AnglePoints : anglePoints' = Append(anglePoints, p)
                    /\ UNCHANGED <<currentDrawings, drawingHistory, historyIndex>>
               ELSE /\ anglePoints' = <<>>
                    /\ Len(currentDrawings') = Len(currentDrawings) + 1
                    /\ ButLast(currentDrawings') = currentDrawings
                    /\ Last(currentDrawings').tool = "angle"
                    /\ \E p \in AnglePoints :
                         Last(currentDrawings').points = Append(anglePoints, p)
                    /\ Last(currentDrawings').text # NoText
                    /\ historyIndex' = historyIndex + 1
                    /\ drawingHistory' =
                         Append(SubSeq(drawingHistory, 1, historyIndex + 1),
                                currentDrawings')]_vars

C17_Witness ==
  /\ lastEvent = "down"
  /\ activeTool = "angle"
  /\ anglePoints = <<>>
  /\ currentDrawings # <<>>
  /\ Last(currentDrawings).tool = "angle"
  /\ Last(currentDrawings).points = <<<<0, 0>>, <<2, 0>>, <<2, 0>>>>
  /\ Last(currentDrawings).text = "180.0"
  /\ Last(drawingHistory) = currentDrawings
  /\ Len(currentDrawings) = 2

\* C18: a pointer-up that ends a line, arrow or circle drag creates exactly
\* one Drawing of the active tool, from the point of the pointer-down to the
\* last pointer position, appends it to the active drawing set, and commits
\* one snapshot equal to the new active drawing set; every line, arrow and
\* circle of the active set and of every snapshot has a start and an end.
C18_Complete(ds) ==
  \A i \in 1..Len(ds) :
    ds[i].tool \in AllShapeTools => (ds[i].start # Null /\ ds[i].end # Null)

C18_Shape ==
  /\ isDrawing => (startPoint \in DownPoints /\ currentPoint # Null)
  /\ C18_Complete(currentDrawings)
  /\ \A k \in 1..Len(drawingHistory) : C18_Complete(drawingHistory[k])

C18_ShapeCommitted ==
  [][/\ C18_Shape'
     /\ (lastEvent' = "down" /\ isAnnotating /\ activeTool # "angle")
          => (isDrawing' /\ startPoint' \in DownPoints /\ currentPoint' = startPoint')
     /\ (lastEvent' = "move" /\ isAnnotating)
          => (currentPoint' \in Points /\ startPoint' = startPoint)
     /\ (lastEvent' = "up" /\ isAnnotating /\ isDrawing
                           /\ activeTool \in AllShapeTools)
          => /\ Len(currentDrawings') = Len(currentDrawings) + 1
             /\ ButLast(currentDrawings') = currentDrawings
             /\ Last(currentDrawings').tool = activeTool
             /\ Last(currentDrawings').start = startPoint
             /\ Last(currentDrawings').end = currentPoint
             /\ Last(currentDrawings').points = <<>>
             /\ historyIndex' = historyIndex + 1
             /\ drawingHistory' =
                  Append(SubSeq(drawingHistory, 1, historyIndex + 1),
                         currentDrawings')]_vars

C18_Witness ==
  /\ lastEvent = "up"
  /\ activeTool = "circle"
  /\ Len(currentDrawings) = 2
  /\ currentDrawings[1].tool = "line"
  /\ currentDrawings[2].tool = "circle"
  /\ currentDrawings[2].start = <<0, 0>>
  /\ currentDrawings[2].end = <<2, 0>>
  /\ Last(drawingHistory) = currentDrawings
  /\ historyIndex = 2

\* C19: after any pointer-up (or pointer-leave) handled in annotation mode
\* no freehand stroke and no shape drag is in progress, whatever the tool
\* and whatever pointer-downs, moves and tool switches came before.
C19_UpIsIdle == (lastEvent = "up" /\ isAnnotating) => ~isDrawing

\* C20: immediately after a clear the active drawing set and the angle
\* accumulator are empty and an empty snapshot is the current history entry,
\* pushed after the entries up to the index before; and a pointer-up that
\* follows the clear commits nothing of what was in progress at the clear.
C20_ClearDiscards ==
  [][/\ lastEvent' = "clear"
          => /\ currentDrawings' = <<>>
             /\ anglePoints' = <<>>
             /\ historyIndex' = historyIndex + 1
             /\ drawingHistory' =
                  Append(SubSeq(drawingHistory, 1, historyIndex + 1), <<>>)
     /\ (lastEvent = "clear" /\ lastEvent' = "up")
          => UNCHANGED <<currentDrawings, drawingHistory, historyIndex>>]_vars

\* C21: selecting a tool, the current one included, empties the angle
\* accumulator and leaves the active drawing set, the history and the
\* history index as they are.
C21_ToolResetsAngle ==
  [][lastEvent' = "tool"
       => /\ anglePoints' = <<>>
          /\ activeTool' \in Tools
          /\ UNCHANGED <<currentDrawings, drawingHistory, historyIndex>>]_vars

C21_Witness ==
  /\ lastEvent = "tool"
  /\ activeTool = "angle"
  /\ anglePoints = <<>>
  /\ currentDrawings # <<>>
  /\ Last(currentDrawings).tool = "angle"
  /\ historyIndex = 1

\* C22: a history snapshot is immutable.  While annotation mode lasts, a
\* step either leaves the history as it is, or keeps every entry up to the
\* index, drops the entries after it and appends one entry; no entry that
\* stays in the history changes its content.
C22_SnapshotsImmutable ==
  [][(isAnnotating /\ isAnnotating')
       => \/ drawingHistory' = drawingHistory
          \/ /\ Len(drawingHistory') = historyIndex + 2
             /\ historyIndex' = historyIndex + 1
             /\ SubSeq(drawingHistory', 1, historyIndex + 1)
                  = SubSeq(drawingHistory, 1, historyIndex + 1)]_vars

C22_Witness ==
  /\ lastEvent = "up"
  /\ ghost.kind = "commit"
  /\ ghost.cut >= 1
  /\ Len(drawingHistory) = 3
  /\ historyIndex = 2
  /\ drawingHistory[2] # <<>>
  /\ drawingHistory[3] # drawingHistory[2]

C28_DragImpliesSeeking == isDragging => isSeeking

C25_Ordered(anns) ==
  \A i \in 1..Len(anns) - 1 : anns[i].timestamp <= anns[i + 1].timestamp

C25_OrderedByTimestamp ==
  /\ C25_Ordered(annotations)
  /\ \A k \in 1..Len(inflight) : C25_Ordered(inflight[k].annotations)

C25_Witness ==
  /\ lastEvent = "updateOk"
  /\ Len(annotations) = 3
  /\ annotations[1].id \in {20, 21}
  /\ annotations[1].timestamp < annotations[2].timestamp
  /\ updateCalls = 2

\* C27: two annotations saved one after the other on the same message from
\* the same chat view are both in the annotation set of the message once
\* both store updates have completed, also when the second save happens
\* before the view has been refreshed with the result of the first.
C27_BothSavesKept ==
  (inflight = <<>> /\ updateCalls = 2) => {20, 21} \subseteq IdsOf(annotations)

\* C26: in annotation mode the history is non-empty and the history index
\* lies between 0 and the history length minus 1; outside annotation mode
\* the history is empty, the index is -1 and the active drawing set and the
\* angle accumulator are empty; after any interleaving of pointer events,
\* undo, redo, clear, tool switches, save and cancel.
C26_HistoryShape ==
  /\ isAnnotating
       => /\ drawingHistory # <<>>
          /\ 0 <= historyIndex
          /\ historyIndex <= Len(drawingHistory) - 1
  /\ ~isAnnotating
       => /\ drawingHistory = <<>>
          /\ historyIndex = -1
          /\ currentDrawings = <<>>
          /\ anglePoints = <<>>

C26_Witness ==
  /\ lastEvent = "save"
  /\ ~isAnnotating
  /\ drawingHistory = <<>>
  /\ historyIndex = -1
  /\ annotations # <<>>
  /\ Len(annotations[1].drawings) = 2
  /\ isDrawing

\* C29: when the src changes while the resolution of an earlier src is
\* pending, the result or the failure of the earlier resolution sets neither
\* the video source nor the unavailable state; once every resolution has
\* settled the player shows the outcome for the latest src.
C29_Outcomes(key) ==
  CASE key = "" -> {""}
    [] key = "data:" -> {"data:"}
    [] key = "supabase:" -> {"https:"}
    [] key = "blob:" -> {"blob:", ""}
    [] key = "indexeddb:" -> {"blob:created", ""}
    [] OTHER -> {key}

C29_LatestSrcWins ==
  [][/\ (/\ lastEvent' \in {"getVideoResolved", "getVideoRejected"}
         /\ \E j \in 1..Len(loads') : loads'[j].isMounted)
          => UNCHANGED <<videoSrc, isLoading>>
     /\ loads' = <<>> => (~isLoading' /\ videoSrc' \in C29_Outcomes(src'))]_vars

C29_Witness ==
  /\ lastEvent = "getVideoRejected"
  /\ loads = <<>>
  /\ loadCount = 2
  /\ src = "data:"
  /\ videoSrc = "data:"
  /\ ~isLoading

\* C30: leaving annotation mode by cancel hands no annotation to the message
\* (its annotation set is unchanged), leaving by save hands over exactly one;
\* pointer-down, pointer-move and pointer-up events outside annotation mode
\* change neither the drawing set, nor the history, nor the message.
C30_OneMore(before, after) ==
  /\ Len(after) = Len(before) + 1
  /\ \E k \in 1..Len(after) :
       SubSeq(after, 1, k - 1) \o SubSeq(after, k + 1, Len(after)) = before

C30_HandOver ==
  [][/\ lastEvent' = "cancel"
          => (~isAnnotating' /\ annotations' = annotations /\ ~handed'.set)
     /\ lastEvent' = "save"
          => (~isAnnotating' /\ handed'.set /\ C30_OneMore(annotations, annotations'))
     /\ (lastEvent' \in {"down", "move", "up"} /\ ~isAnnotating)
          => UNCHANGED <<currentDrawings, drawingHistory, historyIndex,
                         anglePoints, annotations>>]_vars

C30_Witness ==
  /\ lastEvent = "cancel"
  /\ ~isAnnotating
  /\ Len(annotations) = 1
  /\ annotations[1].drawings # <<>>
  /\ isDrawing
  /\ currentDrawings = <<>>

====
